---- MODULE Spec2Model ----
(***************************************************************************)
(* vibefs: the authorization store (the two sqlite tables `authorizations` *)
(* and `git_authorizations`), its operations, the CLI commands, the pid    *)
(* file and the serving process with its sweep thread and handlers.        *)
(*                                                                         *)
(* Spec               every store operation runs to completion.            *)
(* ConcSpec           two callers run add_authorization /                  *)
(*                    add_git_authorization statement by statement, each   *)
(*                    on its own connection.                               *)
(* LifecycleSpec      the serving process started, swept, stopped.         *)
(* LifecycleLiveSpec  the same, the sweep thread scheduled fairly.         *)
(* ServeSpec          the serving process answering requests.              *)
(* RaceSpec           allow / allow-git and the sweep thread, statement    *)
(*                    by statement.                                        *)
(***************************************************************************)
EXTENDS Integers, FiniteSets, Sequences, TLC

\* ---------------------------------------------------------------- bounds
MaxTime == 1        \* time.time() takes the values 0..MaxTime
MaxRows == 2        \* rows held by the two tables together

\* ---------------------------------------------------------------- inputs
\* the values secrets.token_hex(TOKEN_LENGTH) is drawn from (8 hex digits each)
Tokens == {"0a1b2c3d", "deadbeef"}
\* the ttl arguments (click type=int: zero and negative values are accepted)
Ttls == {0, 1, 3}
\* the two concurrent callers pass positive ttls only
PositiveTtls == {ttl \in Ttls : ttl > 0}

\* Paths are sequences of components; an absolute path starts with "/".
Cwd == <<"/", "d">>
InputPaths == {<<"a.txt">>, <<"/", "d", "b.txt">>, <<"gone.txt">>}
InputRepos == {<<"r">>, <<"/", "d">>}
Commits == {"c1"}
None == "None"

VARIABLES
    now,                 \* the wall clock, time.time()
    authorizations,      \* table authorizations: token -> row
    git_authorizations,  \* table git_authorizations: token -> row
    files,               \* the regular files on disk (os.path.isfile)
    dirs,                \* the directories on disk (os.path.isdir)
    ret,                 \* the last completed operation: arguments and result
    callers,             \* ConcSpec: each caller's position and locals
    pid_file,            \* the content of PID_PATH, None when the file is absent
    proc,                \* who holds the daemon's pid: absent, daemon, foreign
    daemon,              \* the serving process: state, mode, how it exited
    request              \* the request the serving process is handling

vars == <<now, authorizations, git_authorizations, files, dirs, ret, callers,
          pid_file, proc, daemon, request>>

\* ------------------------------------------------------- pure functions
abspath(p) == IF p[1] = "/" THEN p ELSE Cwd \o p

basename(p) == p[Len(p)]

isfile(p) == p \in files

is_git_repo(abs_repo) == (abs_repo \o <<".git">>) \in dirs

\* faulty variant: the SELECT without its expiry condition (WHERE filepath = ?)
select_any_file(tbl, abs_path, t) ==
    {tok \in DOMAIN tbl : tbl[tok].filepath = abs_path}

\* SELECT token FROM authorizations WHERE filepath = ? AND expires_at > ?
select_live_file(tbl, abs_path, t) ==
    {tok \in DOMAIN tbl : tbl[tok].filepath = abs_path /\ tbl[tok].expires_at > t}

\* SELECT token FROM git_authorizations
\*   WHERE repo_path = ? AND commit_hash = ? AND expires_at > ?
select_live_git(tbl, abs_repo, commit_hash, t) ==
    {tok \in DOMAIN tbl : /\ tbl[tok].repo_path = abs_repo
                          /\ tbl[tok].commit_hash = commit_hash
                          /\ tbl[tok].expires_at > t}

\* faulty variant: the expiry without the clock (ttl alone)
new_expiry_without_now(t, ttl) == ttl

\* the expiry both authorize functions store: (now + ttl)
new_expiry(t, ttl) == t + ttl

\* faulty variant: the UPDATE is never committed
update_expiry_uncommitted(tbl, token, expires_at) == tbl

\* faulty variant: the UPDATE without its WHERE clause
update_expiry_every_row(tbl, token, expires_at) ==
    [tok \in DOMAIN tbl |-> [tbl[tok] EXCEPT !.expires_at = expires_at]]

\* UPDATE ... SET expires_at = ? WHERE token = ?   (no row: no effect)
update_expiry(tbl, token, expires_at) ==
    IF token \in DOMAIN tbl
    THEN [tbl EXCEPT ![token].expires_at = expires_at]
    ELSE tbl

\* faulty variant: a table without the primary key (INSERT OR REPLACE)
insert_always_ok(tbl, token) == TRUE

\* token TEXT PRIMARY KEY: the INSERT raises IntegrityError on a stored token
insert_ok(tbl, token) == token \notin DOMAIN tbl

\* INSERT INTO ... VALUES (...)
insert_row(tbl, token, row) ==
    [tok \in DOMAIN tbl \cup {token} |-> IF tok = token THEN row ELSE tbl[tok]]

\* faulty variant: the DELETE is never committed
delete_row_uncommitted(tbl, token) == tbl

\* DELETE FROM authorizations WHERE token = ?
delete_row(tbl, token) == [tok \in DOMAIN tbl \ {token} |-> tbl[tok]]

\* cursor.rowcount of that DELETE
delete_rowcount(tbl, token) == IF token \in DOMAIN tbl THEN 1 ELSE 0

file_row(abs_path, t, ttl) ==
    [filepath |-> abs_path, filename |-> basename(abs_path),
     created_at |-> t, expires_at |-> new_expiry(t, ttl)]

git_row(abs_repo, commit_hash, t, ttl) ==
    [repo_path |-> abs_repo, commit_hash |-> commit_hash,
     created_at |-> t, expires_at |-> new_expiry(t, ttl)]

\* faulty variant: the comparison of lookup the wrong way round
lookup_status_reversed(row, t) == IF t < row.expires_at THEN "expired" ELSE "valid"

\* the status half of lookup_authorization / lookup_git_authorization
lookup_status(row, t) == IF t > row.expires_at THEN "expired" ELSE "valid"

\* the row of (None, 'not_found'), as a record so that rows compare
NoneRow == [row |-> None]

\* lookup_authorization / lookup_git_authorization: <<row, status>>
lookup(tbl, token, t) ==
    IF token \notin DOMAIN tbl
    THEN <<NoneRow, "not_found">>
    ELSE <<[token |-> token] @@ tbl[token], lookup_status(tbl[token], t)>>

\* faulty variant: the COUNT without its WHERE
count_all(tbl, t) == Cardinality(DOMAIN tbl)

\* SELECT COUNT(*) ... WHERE expires_at > ?
count_live(tbl, t) == Cardinality({tok \in DOMAIN tbl : tbl[tok].expires_at > t})

\* faulty variant: the git table is not counted
has_active_files_only(file_tbl, git_tbl, t) == count_live(file_tbl, t) > 0

has_active(file_tbl, git_tbl, t) ==
    (count_live(file_tbl, t) + count_live(git_tbl, t)) > 0

\* cursor.fetchone(): a matching row, or None when there is none.  The SELECT
\* has no ORDER BY, so with several matching rows any of them may come first.
fetchone(rows) == IF rows = {} THEN {None} ELSE rows

\* add_authorization after its SELECT returned `row`: the UPDATE or the INSERT,
\* the commit and the returned tuple.  `draw` is secrets.token_hex(TOKEN_LENGTH).
add_authorization_write(tbl, t, abs_path, ttl, row, draw) ==
    IF row # None
    THEN [raised |-> None, tbl |-> update_expiry(tbl, row, new_expiry(t, ttl)),
          token |-> row, filename |-> basename(abs_path), is_new |-> FALSE]
    ELSE IF insert_ok(tbl, draw)
    THEN [raised |-> None, tbl |-> insert_row(tbl, draw, file_row(abs_path, t, ttl)),
          token |-> draw, filename |-> basename(abs_path), is_new |-> TRUE]
    ELSE [raised |-> "IntegrityError", tbl |-> tbl]

\* faulty variant: the isfile check is missing
add_authorization_result_unchecked(tbl, t, filepath, ttl, row, draw) ==
    add_authorization_write(tbl, t, abspath(filepath), ttl, row, draw)

\* add_authorization(filepath, ttl) run to completion at time t
add_authorization_result(tbl, t, filepath, ttl, row, draw) ==
    IF ~isfile(abspath(filepath))
    THEN [raised |-> "FileNotFoundError", tbl |-> tbl]
    ELSE add_authorization_write(tbl, t, abspath(filepath), ttl, row, draw)

\* add_git_authorization after its SELECT returned `row`
add_git_authorization_write(tbl, t, abs_repo, commit_hash, ttl, row, draw) ==
    IF row # None
    THEN [raised |-> None, tbl |-> update_expiry(tbl, row, new_expiry(t, ttl)),
          token |-> row, is_new |-> FALSE]
    ELSE IF insert_ok(tbl, draw)
    THEN [raised |-> None,
          tbl |-> insert_row(tbl, draw, git_row(abs_repo, commit_hash, t, ttl)),
          token |-> draw, is_new |-> TRUE]
    ELSE [raised |-> "IntegrityError", tbl |-> tbl]

\* add_git_authorization(repo_path, commit_hash, ttl) run to completion at time t
add_git_authorization_result(tbl, t, repo_path, commit_hash, ttl, row, draw) ==
    IF ~is_git_repo(abspath(repo_path))
    THEN [raised |-> "ValueError", tbl |-> tbl]
    ELSE add_git_authorization_write(tbl, t, abspath(repo_path), commit_hash, ttl, row, draw)

\* remove_authorization(token): the table after the DELETE and the returned flag
remove_authorization_result(tbl, token) ==
    [tbl |-> delete_row(tbl, token), deleted |-> delete_rowcount(tbl, token) > 0]

\* what the revoke command prints, and on which stream
revoke_echo(deleted) ==
    IF deleted THEN [stream |-> "stdout", text |-> "Revoked"]
               ELSE [stream |-> "stderr", text |-> "Token not found"]

\* the revoke command's exit status: the function returns normally on both
\* branches, so click exits with 0
revoke_exit_code(deleted) == 0

\* vibefs revoke TOKEN: the file table afterwards, what was printed, the exit status
revoke_result(tbl, token) ==
    LET r == remove_authorization_result(tbl, token)
    IN  [tbl |-> r.tbl, deleted |-> r.deleted,
         echo |-> revoke_echo(r.deleted), exit_code |-> revoke_exit_code(r.deleted)]

\* what ret keeps of an authorize call: how it ended
outcome(r) ==
    IF r.raised # None THEN r.raised ELSE IF r.is_new THEN "new" ELSE "extended"

\* -------------------------------------------------------------- initial
EmptyTable == [tok \in {} |-> None]

Idle == [pc |-> "idle"]

Procs == {1, 2}

\* no serving process has been started yet
NoDaemon == [state |-> "none"]

\* the serving process is handling no request
NoRequest == [pc |-> "idle"]

Init ==
    /\ now = 0
    /\ authorizations = EmptyTable
    /\ git_authorizations = EmptyTable
    /\ files = {<<"/", "d", "a.txt">>, <<"/", "d", "b.txt">>}
    /\ dirs = {<<"/", "d", "r", ".git">>}
    /\ ret = [op |-> "init"]
    /\ callers = [p \in Procs |-> Idle]
    /\ pid_file = None
    /\ proc = "absent"
    /\ daemon = NoDaemon
    /\ request = NoRequest

\* the tables are unbounded; the model stops inserting at MaxRows rows
room == Cardinality(DOMAIN authorizations) + Cardinality(DOMAIN git_authorizations) < MaxRows

\* --------------------------------------------------------------- actions
\* the clock advances between operations
Tick ==
    /\ now < MaxTime
    /\ now' = now + 1
    /\ ret' = [op |-> "tick"]
    /\ UNCHANGED <<authorizations, git_authorizations, files, dirs, pid_file, proc, daemon, request, callers>>

\* secrets.token_hex is called on the insert path only
token_hex(row) == IF row = None THEN Tokens ELSE {None}

add_authorization(filepath, ttl) ==
    \E row \in fetchone(select_live_file(authorizations, abspath(filepath), now)) :
    \E draw \in token_hex(row) :
        LET r == add_authorization_result(authorizations, now, filepath, ttl, row, draw)
        IN  /\ (r.raised = None /\ r.is_new) => room
            /\ authorizations' = r.tbl
            /\ ret' = [op |-> "add_authorization", path |-> abspath(filepath),
                       outcome |-> outcome(r)]
            /\ UNCHANGED <<now, git_authorizations, files, dirs, pid_file, proc, daemon, request, callers>>

add_git_authorization(repo_path, commit_hash, ttl) ==
    \E row \in fetchone(select_live_git(git_authorizations, abspath(repo_path),
                                        commit_hash, now)) :
    \E draw \in token_hex(row) :
        LET r == add_git_authorization_result(git_authorizations, now, repo_path,
                                              commit_hash, ttl, row, draw)
        IN  /\ (r.raised = None /\ r.is_new) => room
            /\ git_authorizations' = r.tbl
            /\ ret' = [op |-> "add_git_authorization",
                       path |-> <<abspath(repo_path), commit_hash>>,
                       outcome |-> outcome(r)]
            /\ UNCHANGED <<now, authorizations, files, dirs, pid_file, proc, daemon, request, callers>>

\* vibefs revoke TOKEN
revoke(token) ==
    LET r == revoke_result(authorizations, token)
    IN  /\ authorizations' = r.tbl
        /\ ret' = [op |-> "revoke", token |-> token, deleted |-> r.deleted,
                   echo |-> r.echo, exit_code |-> r.exit_code]
        /\ UNCHANGED <<now, git_authorizations, files, dirs, pid_file, proc, daemon, request, callers>>

\* The three reads return lookup(...) and has_active(...) of the current state
\* and write nothing: no statement but SELECT, no commit.
lookup_authorization(token) ==
    /\ lookup(authorizations, token, now)[2] \in {"valid", "expired", "not_found"}
    /\ UNCHANGED vars

lookup_git_authorization(token) ==
    /\ lookup(git_authorizations, token, now)[2] \in {"valid", "expired", "not_found"}
    /\ UNCHANGED vars

has_active_authorizations ==
    /\ has_active(authorizations, git_authorizations, now) \in BOOLEAN
    /\ UNCHANGED vars

Next ==
    \/ Tick
    \/ \E filepath \in InputPaths, ttl \in Ttls : add_authorization(filepath, ttl)
    \/ \E repo_path \in InputRepos, commit_hash \in Commits, ttl \in Ttls :
           add_git_authorization(repo_path, commit_hash, ttl)
    \/ \E token \in Tokens : revoke(token)
    \/ \E token \in Tokens : lookup_authorization(token)
    \/ \E token \in Tokens : lookup_git_authorization(token)
    \/ has_active_authorizations

Spec == Init /\ [][Next]_vars

\* ------------------------------------------- two callers, statement by statement
\* Each caller runs add_authorization / add_git_authorization on its own
\* connection: validation and now = time.time(), then the SELECT, then the
\* UPDATE or INSERT with its commit.  sqlite3 opens no transaction for the
\* SELECT, so statements of the other caller may run between the two.
call_add_authorization(p, filepath, ttl) ==
    /\ callers[p].pc = "idle"
    /\ isfile(abspath(filepath))
    /\ callers' = [callers EXCEPT ![p] =
                       [pc |-> "select", op |-> "add_authorization",
                        path |-> abspath(filepath), ttl |-> ttl, now |-> now]]
    /\ UNCHANGED <<now, authorizations, git_authorizations, files, dirs, pid_file, proc, daemon, request, ret>>

call_add_git_authorization(p, repo_path, commit_hash, ttl) ==
    /\ callers[p].pc = "idle"
    /\ is_git_repo(abspath(repo_path))
    /\ callers' = [callers EXCEPT ![p] =
                       [pc |-> "select", op |-> "add_git_authorization",
                        path |-> <<abspath(repo_path), commit_hash>>, ttl |-> ttl,
                        now |-> now]]
    /\ UNCHANGED <<now, authorizations, git_authorizations, files, dirs, pid_file, proc, daemon, request, ret>>

\* row = db.execute('SELECT token ...').fetchone()
select_step(p) ==
    LET c == callers[p]
        rows == IF c.op = "add_authorization"
                THEN select_live_file(authorizations, c.path, c.now)
                ELSE select_live_git(git_authorizations, c.path[1], c.path[2], c.now)
    IN  /\ c.pc = "select"
        /\ \E row \in fetchone(rows) :
               callers' = [callers EXCEPT ![p] = [pc |-> "write", row |-> row] @@ c]
        /\ UNCHANGED <<now, authorizations, git_authorizations, files, dirs, pid_file, proc, daemon, request, ret>>

\* if row: UPDATE, commit   else: INSERT, commit
write_step(p) ==
    LET c == callers[p]
    IN  /\ c.pc = "write"
        /\ \E draw \in token_hex(c.row) :
               IF c.op = "add_authorization"
               THEN LET r == add_authorization_write(authorizations, c.now, c.path,
                                                     c.ttl, c.row, draw)
                    IN  /\ (r.raised = None /\ r.is_new) => room
                        /\ authorizations' = r.tbl
                        /\ UNCHANGED git_authorizations
               ELSE LET r == add_git_authorization_write(git_authorizations, c.now,
                                 c.path[1], c.path[2], c.ttl, c.row, draw)
                    IN  /\ (r.raised = None /\ r.is_new) => room
                        /\ git_authorizations' = r.tbl
                        /\ UNCHANGED authorizations
        /\ callers' = [callers EXCEPT ![p] = Idle]
        /\ UNCHANGED <<now, files, dirs, pid_file, proc, daemon, request, ret>>

\* the clock advances between any two statements
ConcTick ==
    /\ now < MaxTime
    /\ now' = now + 1
    /\ UNCHANGED <<authorizations, git_authorizations, files, dirs, pid_file, proc, daemon, request, ret, callers>>

ConcNext ==
    \/ ConcTick
    \/ \E p \in Procs, filepath \in InputPaths, ttl \in PositiveTtls :
           call_add_authorization(p, filepath, ttl)
    \/ \E p \in Procs, repo_path \in InputRepos, commit_hash \in Commits,
          ttl \in PositiveTtls :
           call_add_git_authorization(p, repo_path, commit_hash, ttl)
    \/ \E p \in Procs : select_step(p)
    \/ \E p \in Procs : write_step(p)

ConcSpec == Init /\ [][ConcNext]_vars

\* ------------------------------------------------- the serving process
\* os.getpid() of the serving process
Pid == "4711"

\* the inputs of the runs with a serving process
DaemonPaths == {<<"a.txt">>}
DaemonRepos == {<<"r">>}
DaemonTtls == {0, 1}

\* read_pid(): the pid in the file, None when the file is absent or empty
read_pid(pf) == pf

\* remove_pid(): the file is gone afterwards
remove_pid(pf) == None

\* os.kill(pid, sig) for the pid of the file: what it raises
os_kill(pr) ==
    IF pr = "absent" THEN "ProcessLookupError"
    ELSE IF pr = "foreign" THEN "PermissionError"
    ELSE None

\* faulty variant: a pid file is believed without signalling the process
is_daemon_running_result_unprobed(pf, pr) ==
    [raised |-> None, returned |-> read_pid(pf) # None, pid_file |-> pf]

\* is_daemon_running(): the returned flag and the pid file afterwards
is_daemon_running_result(pf, pr) ==
    IF read_pid(pf) = None
    THEN [raised |-> None, returned |-> FALSE, pid_file |-> pf]
    ELSE IF os_kill(pr) = "ProcessLookupError"
    THEN [raised |-> None, returned |-> FALSE, pid_file |-> remove_pid(pf)]
    ELSE [raised |-> None, returned |-> TRUE, pid_file |-> pf]

\* stop_daemon(): only ProcessLookupError is caught; signalled tells whether
\* SIGTERM reached the serving process
stop_daemon_result(pf, pr) ==
    IF read_pid(pf) = None
    THEN [raised |-> None, returned |-> FALSE, pid_file |-> pf, signalled |-> FALSE]
    ELSE IF os_kill(pr) = "ProcessLookupError"
    THEN [raised |-> None, returned |-> FALSE, pid_file |-> remove_pid(pf),
          signalled |-> FALSE]
    ELSE IF os_kill(pr) = "PermissionError"
    THEN [raised |-> "PermissionError", pid_file |-> pf, signalled |-> FALSE]
    ELSE [raised |-> None, returned |-> TRUE, pid_file |-> pf, signalled |-> TRUE]

\* `vibefs serve` started while a serving process holds the port: write_pid()
\* overwrites the pid file with the new process's pid, app.run() fails to bind,
\* the interpreter exits on the exception and atexit's remove_pid removes the
\* file.  The pid file after all that.
serve_port_taken_pid_file(pf) == remove_pid(Pid)

\* faulty variant: every existing table is dropped and created again
create_tables_anew(tbl) == EmptyTable

\* get_db(): CREATE TABLE IF NOT EXISTS and commit; an existing table keeps its rows
create_tables(tbl) == tbl

\* get_git_commit_info(repo_path, commit_hash) raises when git cannot run in
\* repo_path or finds no repository there
get_git_commit_info_raises(repo_path) == ~is_git_repo(repo_path)

\* faulty variant: the expired page is given the stored path
expired_page_with_path(row) == [filename |-> row.filename, filepath |-> row.filepath]

\* bottle.template(EXPIRED_TEMPLATE, filename=row['filename']): what the page is given
expired_page(row) == [filename |-> row.filename]

\* serve_file after its lookup returned (row, status)
serve_file_response(row, status) ==
    IF status = "not_found"
    THEN [status |-> 404, body |-> "Not found"]
    ELSE IF status = "expired"
    THEN [status |-> 200, body |-> "expired", page |-> expired_page(row)]
    ELSE IF ~isfile(row.filepath)
    THEN [status |-> 404, body |-> "File no longer exists on disk"]
    ELSE [status |-> 200, body |-> "render", filepath |-> row.filepath]

\* serve_git after its lookup returned (row, status)
serve_git_response(row, status) ==
    IF status = "not_found"
    THEN [status |-> 404, body |-> "Not found"]
    ELSE IF status = "expired"
    THEN [status |-> 200, body |-> "expired", page |-> [filename |-> "git commit"]]
    ELSE IF get_git_commit_info_raises(row.repo_path)
    THEN [status |-> 500, body |-> "Failed to read git commit"]
    ELSE [status |-> 200, body |-> "commit", repo_path |-> row.repo_path,
          commit_hash |-> row.commit_hash]

\* faulty variant: the sweep shuts down without asking for active authorizations
check_loop_exits_unasked(file_tbl, git_tbl, t) == TRUE

\* the check of check_loop: shut down when no authorization is active
check_loop_exits(file_tbl, git_tbl, t) == ~has_active(file_tbl, git_tbl, t)

\* vibefs serve [--foreground]: write_pid(), atexit.register(remove_pid), the
\* cleanup timer unless in the foreground, app.run().  The model follows one
\* pid: a serving process starts when none is running and the pid is free.
serve(foreground) ==
    /\ daemon.state # "running"
    /\ proc = "absent"
    /\ pid_file' = Pid
    /\ proc' = "daemon"
    /\ daemon' = [state |-> "running", foreground |-> foreground]
    /\ request' = NoRequest
    /\ UNCHANGED <<now, authorizations, git_authorizations, files, dirs, ret, callers>>

\* one round of check_loop after its sleep: has_active_authorizations(), and if
\* it is false remove_pid() and os._exit(0), whatever the process is doing
check_loop ==
    /\ daemon.state = "running"
    /\ ~daemon.foreground
    /\ authorizations' = create_tables(authorizations)
    /\ git_authorizations' = create_tables(git_authorizations)
    /\ IF check_loop_exits(authorizations, git_authorizations, now)
       THEN /\ pid_file' = remove_pid(pid_file)
            /\ daemon' = [state |-> "exited", foreground |-> daemon.foreground,
                          by |-> "sweep"]
            /\ proc' = "absent"
       ELSE UNCHANGED <<pid_file, daemon, proc>>
    /\ UNCHANGED <<now, files, dirs, ret, callers, request>>

\* vibefs stop: stop_daemon().  SIGTERM has no handler in the serving process:
\* it dies at once and its atexit functions do not run.
stop ==
    LET r == stop_daemon_result(pid_file, proc)
    IN  /\ pid_file' = r.pid_file
        /\ IF r.signalled
           THEN /\ daemon' = [state |-> "exited", foreground |-> daemon.foreground,
                              by |-> "SIGTERM"]
                /\ proc' = "absent"
           ELSE UNCHANGED <<daemon, proc>>
        /\ UNCHANGED <<now, authorizations, git_authorizations, files, dirs, ret,
                       callers, request>>

\* vibefs status: read_pid(), is_daemon_running()
status ==
    /\ pid_file' = is_daemon_running_result(pid_file, proc).pid_file
    /\ UNCHANGED <<now, authorizations, git_authorizations, files, dirs, ret, callers,
                   proc, daemon, request>>

\* Ctrl-C in a foreground server: app.run() returns on KeyboardInterrupt, the
\* interpreter exits and runs atexit's remove_pid
interrupt ==
    /\ daemon.state = "running"
    /\ daemon.foreground
    /\ pid_file' = remove_pid(pid_file)
    /\ daemon' = [state |-> "exited", foreground |-> daemon.foreground, by |-> "SIGINT"]
    /\ proc' = "absent"
    /\ UNCHANGED <<now, authorizations, git_authorizations, files, dirs, ret, callers,
                   request>>

\* vibefs serve [--foreground] run by hand while a serving process holds the port
serve_port_taken(foreground) ==
    /\ daemon.state = "running"
    /\ pid_file' = serve_port_taken_pid_file(pid_file)
    /\ UNCHANGED <<now, authorizations, git_authorizations, files, dirs, ret, callers,
                   proc, daemon, request>>

\* the operating system gives the free pid to a process of another user, and
\* that process ends
pid_reused ==
    /\ proc = "absent"
    /\ pid_file # None
    /\ proc' = "foreign"
    /\ UNCHANGED <<now, authorizations, git_authorizations, files, dirs, ret, callers,
                   pid_file, daemon, request>>

foreign_exit ==
    /\ proc = "foreign"
    /\ proc' = "absent"
    /\ UNCHANGED <<now, authorizations, git_authorizations, files, dirs, ret, callers,
                   pid_file, daemon, request>>

\* GET /f/<token>/<filename>, first half: row, status = lookup_authorization(token)
serve_file_lookup(token) ==
    LET l == lookup(authorizations, token, now)
    IN  /\ daemon.state = "running"
        /\ request.pc # "responding"
        /\ authorizations' = create_tables(authorizations)
        /\ git_authorizations' = create_tables(git_authorizations)
        /\ request' = [pc |-> "responding", route |-> "f", row |-> l[1], status |-> l[2]]
        /\ UNCHANGED <<now, files, dirs, ret, callers, pid_file, proc, daemon>>

\* GET /git/<token>, first half: row, status = lookup_git_authorization(token)
serve_git_lookup(token) ==
    LET l == lookup(git_authorizations, token, now)
    IN  /\ daemon.state = "running"
        /\ request.pc # "responding"
        /\ authorizations' = create_tables(authorizations)
        /\ git_authorizations' = create_tables(git_authorizations)
        /\ request' = [pc |-> "responding", route |-> "git", row |-> l[1],
                       status |-> l[2]]
        /\ UNCHANGED <<now, files, dirs, ret, callers, pid_file, proc, daemon>>

\* second half of either handler: the response is built and sent
respond ==
    /\ daemon.state = "running"
    /\ request.pc = "responding"
    /\ request' = [pc |-> "done", route |-> request.route, status |-> request.status,
                   response |-> IF request.route = "f"
                                THEN serve_file_response(request.row, request.status)
                                ELSE serve_git_response(request.row, request.status)]
    /\ UNCHANGED <<now, authorizations, git_authorizations, files, dirs, ret, callers,
                   pid_file, proc, daemon>>

\* vibefs list: list_authorizations() and the SELECT on git_authorizations
list_cmd ==
    /\ authorizations' = create_tables(authorizations)
    /\ git_authorizations' = create_tables(git_authorizations)
    /\ ret' = [op |-> "list"]
    /\ UNCHANGED <<now, files, dirs, callers, pid_file, proc, daemon, request>>

\* the authorized file is deleted, the repository is deleted
unlink(path) ==
    /\ path \in files
    /\ files' = files \ {path}
    /\ UNCHANGED <<now, authorizations, git_authorizations, dirs, ret, callers,
                   pid_file, proc, daemon, request>>

rmtree(repo_path) ==
    /\ is_git_repo(repo_path)
    /\ dirs' = dirs \ {repo_path \o <<".git">>}
    /\ UNCHANGED <<now, authorizations, git_authorizations, files, ret, callers,
                   pid_file, proc, daemon, request>>

\* start_daemon(port, host): the spawned `vibefs serve` (not in the foreground)
\* has written its pid by the time the caller looks; while a serving process
\* holds the port the spawned one ends as in serve_port_taken_pid_file
start_daemon ==
    IF daemon.state = "running"
    THEN /\ pid_file' = serve_port_taken_pid_file(pid_file)
         /\ UNCHANGED <<proc, daemon, request>>
    ELSE /\ pid_file' = Pid
         /\ proc' = "daemon"
         /\ daemon' = [state |-> "running", foreground |-> FALSE]
         /\ request' = NoRequest

\* start_daemon's report after its grace interval: proc.poll() is not None
\* when the spawned process has exited already
start_daemon_report(dm) == IF dm.state = "running" THEN "exited immediately" ELSE "started"

\* the tail of allow and allow-git: if not is_daemon_running(): start_daemon(...)
auto_start ==
    LET r == is_daemon_running_result(pid_file, proc)
    IN  IF r.returned
        THEN /\ pid_file' = r.pid_file
             /\ UNCHANGED <<proc, daemon, request>>
        ELSE start_daemon

\* vibefs allow PATH --ttl TTL: add_authorization, the URL, then auto_start.
\* FileNotFoundError is not caught: the command ends before auto_start.
allow(path, ttl) ==
    \E row \in fetchone(select_live_file(authorizations, abspath(path), now)) :
    \E draw \in token_hex(row) :
        LET r == add_authorization_result(authorizations, now, path, ttl, row, draw)
        IN  /\ (r.raised = None /\ r.is_new) => room
            /\ authorizations' = r.tbl
            /\ IF r.raised = None
               THEN auto_start
               ELSE UNCHANGED <<pid_file, proc, daemon, request>>
            /\ ret' = [op |-> "allow"]
            /\ UNCHANGED <<now, git_authorizations, files, dirs, callers>>

\* vibefs allow-git REPO_PATH COMMIT_HASH --ttl TTL: ValueError ends in
\* sys.exit(1), IntegrityError is not caught; both before auto_start
allow_git(repo_path, commit_hash, ttl) ==
    \E row \in fetchone(select_live_git(git_authorizations, abspath(repo_path),
                                        commit_hash, now)) :
    \E draw \in token_hex(row) :
        LET r == add_git_authorization_result(git_authorizations, now, repo_path,
                                              commit_hash, ttl, row, draw)
        IN  /\ (r.raised = None /\ r.is_new) => room
            /\ git_authorizations' = r.tbl
            /\ IF r.raised = None
               THEN auto_start
               ELSE UNCHANGED <<pid_file, proc, daemon, request>>
            /\ ret' = [op |-> "allow-git"]
            /\ UNCHANGED <<now, authorizations, files, dirs, callers>>

\* ---- the daemon's life: started, swept, stopped, asked for its status
LifecycleNext ==
    \/ Tick
    \/ \E path \in DaemonPaths, ttl \in DaemonTtls : allow(path, ttl)
    \/ \E foreground \in BOOLEAN : serve(foreground)
    \/ \E foreground \in BOOLEAN : serve_port_taken(foreground)
    \/ check_loop
    \/ stop
    \/ status
    \/ interrupt
    \/ pid_reused
    \/ foreign_exit

LifecycleSpec == Init /\ [][LifecycleNext]_vars

\* the sweep thread is scheduled again and again while the process runs
LifecycleLiveSpec == LifecycleSpec /\ WF_vars(check_loop)

\* ---- the daemon serving requests while authorizations come, expire and the
\* ---- resources behind them vanish
ServeNext ==
    \/ Tick
    \/ \E path \in DaemonPaths, ttl \in DaemonTtls : allow(path, ttl)
    \/ \E repo_path \in DaemonRepos, commit_hash \in Commits, ttl \in DaemonTtls :
           allow_git(repo_path, commit_hash, ttl)
    \/ check_loop
    \/ \E token \in Tokens : serve_file_lookup(token)
    \/ \E token \in Tokens : serve_git_lookup(token)
    \/ respond
    \/ list_cmd
    \/ \E path \in DaemonPaths : unlink(abspath(path))
    \/ \E repo_path \in DaemonRepos : rmtree(abspath(repo_path))

ServeSpec == Init /\ [][ServeNext]_vars

\* ---- one allow or allow-git command per caller and the sweep thread,
\* ---- statement by statement: what the other may do between two statements.
\* ---- Caller 1 runs allow commands, caller 2 allow-git commands.
\* allow up to its printed URL: add_authorization(path, ttl).  An exception
\* ends the command.  sweep_committed records whether the sweep thread had
\* already decided to shut down when the record was written.
allow_add_authorization(p, path, ttl) ==
    /\ callers[p].pc \in {"idle", "done"}
    /\ \E row \in fetchone(select_live_file(authorizations, abspath(path), now)) :
       \E draw \in token_hex(row) :
           LET r == add_authorization_result(authorizations, now, path, ttl, row, draw)
           IN  /\ (r.raised = None /\ r.is_new) => room
               /\ authorizations' = r.tbl
               /\ callers' = [callers EXCEPT ![p] =
                                 IF r.raised = None
                                 THEN [pc |-> "is_daemon_running", kind |-> "file",
                                       token |-> r.token,
                                       sweep_committed |-> "sweep" \in DOMAIN daemon]
                                 ELSE Idle]
    /\ UNCHANGED <<now, git_authorizations, files, dirs, ret, pid_file, proc, daemon,
                   request>>

\* allow-git up to its printed URL: add_git_authorization(repo_path, commit_hash, ttl)
allow_git_add_authorization(p, repo_path, commit_hash, ttl) ==
    /\ callers[p].pc \in {"idle", "done"}
    /\ \E row \in fetchone(select_live_git(git_authorizations, abspath(repo_path),
                                           commit_hash, now)) :
       \E draw \in token_hex(row) :
           LET r == add_git_authorization_result(git_authorizations, now, repo_path,
                                                 commit_hash, ttl, row, draw)
           IN  /\ (r.raised = None /\ r.is_new) => room
               /\ git_authorizations' = r.tbl
               /\ callers' = [callers EXCEPT ![p] =
                                 IF r.raised = None
                                 THEN [pc |-> "is_daemon_running", kind |-> "git",
                                       token |-> r.token,
                                       sweep_committed |-> "sweep" \in DOMAIN daemon]
                                 ELSE Idle]
    /\ UNCHANGED <<now, authorizations, files, dirs, ret, pid_file, proc, daemon,
                   request>>

\* allow, line 939, and allow-git, line 971: if not is_daemon_running()
allow_is_daemon_running(p) ==
    LET c == callers[p]
        r == is_daemon_running_result(pid_file, proc)
    IN  /\ c.pc = "is_daemon_running"
        /\ pid_file' = r.pid_file
        /\ callers' = [callers EXCEPT ![p] =
                          IF r.returned
                          THEN [pc |-> "done", kind |-> c.kind, token |-> c.token,
                                sweep_committed |-> c.sweep_committed,
                                report |-> "running"]
                          ELSE [pc |-> "start_daemon", kind |-> c.kind, token |-> c.token,
                                sweep_committed |-> c.sweep_committed]]
        /\ UNCHANGED <<now, authorizations, git_authorizations, files, dirs, ret, proc,
                       daemon, request>>

\* allow, line 940, and allow-git, line 972: start_daemon(port, DEFAULT_HOST)
allow_start_daemon(p) ==
    LET c == callers[p]
    IN  /\ c.pc = "start_daemon"
        /\ start_daemon
        /\ callers' = [callers EXCEPT ![p] =
                          [pc |-> "done", kind |-> c.kind, token |-> c.token,
                           sweep_committed |-> c.sweep_committed,
                           report |-> start_daemon_report(daemon)]]
        /\ UNCHANGED <<now, authorizations, git_authorizations, files, dirs, ret>>

\* check_loop, line 395: the sweep thread wakes and asks has_active_authorizations()
check_loop_check ==
    /\ daemon.state = "running"
    /\ ~daemon.foreground
    /\ "sweep" \notin DOMAIN daemon
    /\ authorizations' = create_tables(authorizations)
    /\ git_authorizations' = create_tables(git_authorizations)
    /\ IF check_loop_exits(authorizations, git_authorizations, now)
       THEN daemon' = [state |-> "running", foreground |-> daemon.foreground,
                       sweep |-> "committed"]
       ELSE UNCHANGED daemon
    /\ UNCHANGED <<now, files, dirs, ret, callers, pid_file, proc, request>>

\* check_loop, lines 396-398: the message, remove_pid(), os._exit(0)
check_loop_exit ==
    /\ daemon.state = "running"
    /\ "sweep" \in DOMAIN daemon
    /\ pid_file' = remove_pid(pid_file)
    /\ daemon' = [state |-> "exited", foreground |-> daemon.foreground, by |-> "sweep"]
    /\ proc' = "absent"
    /\ UNCHANGED <<now, authorizations, git_authorizations, files, dirs, ret, callers,
                   request>>

RaceNext ==
    \/ Tick
    \/ \E path \in DaemonPaths, ttl \in DaemonTtls :
           allow_add_authorization(1, path, ttl)
    \/ \E repo_path \in DaemonRepos, commit_hash \in Commits, ttl \in DaemonTtls :
           allow_git_add_authorization(2, repo_path, commit_hash, ttl)
    \/ \E p \in Procs : allow_is_daemon_running(p)
    \/ \E p \in Procs : allow_start_daemon(p)
    \/ check_loop_check
    \/ check_loop_exit
    \/ stop

RaceSpec == Init /\ [][RaceNext]_vars

\* ------------------------------------------------ what the claims speak of
\* the resource locator of a row
file_locator(row) == row.filepath

git_locator(row) == <<row.repo_path, row.commit_hash>>

FileLocators == {abspath(p) : p \in InputPaths}

GitLocators == {<<abspath(p), c>> : p \in InputRepos, c \in Commits}

\* tokens of the file table bound to abs_path, and of the git table bound to loc
FileTokensOf(tbl, abs_path) == {tok \in DOMAIN tbl : file_locator(tbl[tok]) = abs_path}

GitTokensOf(tbl, loc) == {tok \in DOMAIN tbl : git_locator(tbl[tok]) = loc}

\* not logically dead at time t: t <= expiresAt
NotDead(tbl, t) == {tok \in DOMAIN tbl : t <= tbl[tok].expires_at}

\* strictly before its expiry at time t
BeforeExpiry(tbl, t) == {tok \in DOMAIN tbl : t < tbl[tok].expires_at}

\* past its expiry at time t
PastExpiry(tbl, t) == {tok \in DOMAIN tbl : t > tbl[tok].expires_at}

\* the rows fetchone() can hand to add_authorization / add_git_authorization now
FileFetch(filepath) == fetchone(select_live_file(authorizations, abspath(filepath), now))

GitFetch(repo_path, commit_hash) ==
    fetchone(select_live_git(git_authorizations, abspath(repo_path), commit_hash, now))

\* ----------------------------------------------------------------- C1
\* C1: in every state reached by completed authorize, revoke and clock steps,
\* each store holds at most one authorization per resource locator that is not
\* logically dead (now <= expiresAt).
C1_OneLivePerResource ==
    /\ \A loc \in FileLocators :
           Cardinality(FileTokensOf(authorizations, loc) \cap NotDead(authorizations, now)) <= 1
    /\ \A loc \in GitLocators :
           Cardinality(GitTokensOf(git_authorizations, loc)
                       \cap NotDead(git_authorizations, now)) <= 1

\* ----------------------------------------------------------------- C2
\* C2: when two authorize calls for the same resource run concurrently, their
\* SELECT and their UPDATE/INSERT steps interleaved in any order, the store never
\* holds two distinct live tokens for that resource (live as the authorize
\* functions themselves select it: expires_at > now).
C2_NoTwoLiveTokens ==
    /\ \A loc \in FileLocators :
           Cardinality(FileTokensOf(authorizations, loc)
                       \cap BeforeExpiry(authorizations, now)) <= 1
    /\ \A loc \in GitLocators :
           Cardinality(GitTokensOf(git_authorizations, loc)
                       \cap BeforeExpiry(git_authorizations, now)) <= 1

\* ----------------------------------------------------------------- C3
\* C3: for an existing resource and ttl > 0, a successful authorize call followed
\* by a lookup of the returned token at the same clock value yields valid and a
\* record carrying that token and the authorized resource locator.
C3_FileCase(filepath, ttl, row, draw) ==
    LET r == add_authorization_result(authorizations, now, filepath, ttl, row, draw)
    IN  (isfile(abspath(filepath)) /\ ttl > 0 /\ r.raised = None) =>
            LET l == lookup(r.tbl, r.token, now)
            IN  /\ l[2] = "valid"
                /\ l[1].token = r.token
                /\ l[1].filepath = abspath(filepath)

C3_GitCase(repo_path, commit_hash, ttl, row, draw) ==
    LET r == add_git_authorization_result(git_authorizations, now, repo_path,
                                          commit_hash, ttl, row, draw)
    IN  (is_git_repo(abspath(repo_path)) /\ ttl > 0 /\ r.raised = None) =>
            LET l == lookup(r.tbl, r.token, now)
            IN  /\ l[2] = "valid"
                /\ l[1].token = r.token
                /\ git_locator(l[1]) = <<abspath(repo_path), commit_hash>>

C3_AuthorizeThenLookupValid ==
    /\ \A filepath \in InputPaths : \A row \in FileFetch(filepath) :
           \A ttl \in Ttls, draw \in token_hex(row) :
               C3_FileCase(filepath, ttl, row, draw)
    /\ \A repo_path \in InputRepos, commit_hash \in Commits :
           \A row \in GitFetch(repo_path, commit_hash) :
               \A ttl \in Ttls, draw \in token_hex(row) :
                   C3_GitCase(repo_path, commit_hash, ttl, row, draw)

\* an authorize call with ttl > 0 has just minted a git token, and looking it up is valid
C3_Witness ==
    /\ ret.op = "add_git_authorization"
    /\ ret.outcome = "new"
    /\ \E tok \in DOMAIN git_authorizations :
           /\ git_authorizations[tok].created_at = now
           /\ git_authorizations[tok].expires_at > now
           /\ lookup(git_authorizations, tok, now)[2] = "valid"

\* ----------------------------------------------------------------- C4
\* C4: re-authorizing a resource strictly before its current authorization
\* expires returns that one existing token with is_new = FALSE, inserts no row,
\* and sets the record's expires_at to exactly now + ttl.
C4_Extends(tbl, live, r, ttl) ==
    /\ r.raised = None
    /\ r.is_new = FALSE
    /\ live = {r.token}
    /\ DOMAIN r.tbl = DOMAIN tbl
    /\ r.tbl[r.token].expires_at = now + ttl

C5_NoDecrease(tbl, tbl2) ==
    \A tok \in DOMAIN tbl \cap DOMAIN tbl2 :
        tbl2[tok].expires_at > now => tbl2[tok].expires_at >= tbl[tok].expires_at

\* C5 as stated (its first half): across authorize calls with positive ttl the
\* expires_at of an existing record never decreases.  (The second half, that a
\* re-authorization leaves expires_at strictly greater, is settled by the
\* amended statement below.)
C5_ExpiryNeverShortened ==
    [][/\ C5_NoDecrease(authorizations, authorizations')
       /\ C5_NoDecrease(git_authorizations, git_authorizations')]_vars

\* C5 amended: the call leaves every other record's expires_at alone and sets
\* the re-authorized record's expires_at to now + ttl, which is later than now;
\* that is later than (not earlier than) the previous expires_at exactly when
\* ttl exceeds (is at least) the previous remaining lifetime.
C5_ExpiryReset(tbl, r, ttl) ==
    /\ \A tok \in DOMAIN tbl :
           (r.raised # None \/ r.is_new \/ tok # r.token) =>
               r.tbl[tok].expires_at = tbl[tok].expires_at
    /\ (r.raised = None /\ ~r.is_new) =>
           LET old == tbl[r.token].expires_at
               new == r.tbl[r.token].expires_at
           IN  /\ new > now
               /\ new - now = ttl
               /\ (new > old) <=> (ttl > old - now)
               /\ (new >= old) <=> (ttl >= old - now)

C5_ExpirySetToNowPlusTtl ==
    /\ \A filepath \in InputPaths : \A row \in FileFetch(filepath) :
           \A ttl \in Ttls, draw \in token_hex(row) :
               ttl > 0 => C5_ExpiryReset(authorizations,
                              add_authorization_result(authorizations, now, filepath,
                                                       ttl, row, draw), ttl)
    /\ \A repo_path \in InputRepos, commit_hash \in Commits :
           \A row \in GitFetch(repo_path, commit_hash) :
               \A ttl \in Ttls, draw \in token_hex(row) :
                   ttl > 0 => C5_ExpiryReset(git_authorizations,
                                  add_git_authorization_result(git_authorizations, now,
                                      repo_path, commit_hash, ttl, row, draw), ttl)

\* a live file authorization has just been re-authorized with a shorter ttl:
\* its expiry now lies less than the first ttl after its creation
C5_Witness ==
    /\ ret.op = "add_authorization"
    /\ ret.outcome = "extended"
    /\ \E tok \in DOMAIN authorizations :
           /\ authorizations[tok].created_at < now
           /\ authorizations[tok].expires_at > now
           /\ authorizations[tok].expires_at < authorizations[tok].created_at + 3

\* ----------------------------------------------------------------- C6
\* C6 as stated: re-authorizing a resource whose authorizations are all expired
\* (or that has none) succeeds with is_new = TRUE and returns a freshly minted
\* token, distinct from every expired token of that resource.
C6_Minted(tbl, tbl2, mine, loc_of(_)) ==
    /\ ret'.outcome = "new"
    /\ \E tok \in DOMAIN tbl2 \ DOMAIN tbl :
           /\ loc_of(tbl2[tok]) = ret'.path
           /\ tok \notin mine

C6_ReauthorizeExpiredMints ==
    [][/\ (/\ ret'.op = "add_authorization"
           /\ isfile(ret'.path)
           /\ FileTokensOf(authorizations, ret'.path) \subseteq PastExpiry(authorizations, now))
          => C6_Minted(authorizations, authorizations',
                       FileTokensOf(authorizations, ret'.path), file_locator)
       /\ (/\ ret'.op = "add_git_authorization"
           /\ is_git_repo(ret'.path[1])
           /\ GitTokensOf(git_authorizations, ret'.path)
                  \subseteq PastExpiry(git_authorizations, now))
          => C6_Minted(git_authorizations, git_authorizations',
                       GitTokensOf(git_authorizations, ret'.path), git_locator)]_vars

\* C6 amended: such a call takes the insert path.  If the drawn token is already
\* a key of that table the insert raises IntegrityError and the table is
\* unchanged; otherwise the call succeeds with is_new = TRUE, adds one row for
\* the resource and returns a token that is no key of the table before the
\* call, hence distinct from every stored expired token of the resource.
C6_MintsOrCollides(tbl, expired, r, draw) ==
    IF draw \in DOMAIN tbl
    THEN r.raised = "IntegrityError" /\ r.tbl = tbl
    ELSE /\ r.raised = None
         /\ r.is_new = TRUE
         /\ r.token = draw
         /\ r.token \notin expired
         /\ DOMAIN r.tbl = DOMAIN tbl \cup {draw}
         /\ \A tok \in DOMAIN tbl : r.tbl[tok] = tbl[tok]

C6_ReauthorizeExpiredMintsUnlessCollision ==
    /\ \A filepath \in InputPaths :
           LET mine == FileTokensOf(authorizations, abspath(filepath))
           IN  (isfile(abspath(filepath)) /\ mine \subseteq PastExpiry(authorizations, now)) =>
                   \A row \in FileFetch(filepath) : \A ttl \in Ttls, draw \in Tokens :
                       LET r == add_authorization_result(authorizations, now, filepath,
                                                         ttl, row, draw)
                       IN  /\ C6_MintsOrCollides(authorizations, mine, r, draw)
                           /\ r.raised = None =>
                                  file_locator(r.tbl[draw]) = abspath(filepath)
    /\ \A repo_path \in InputRepos, commit_hash \in Commits :
           LET mine == GitTokensOf(git_authorizations, <<abspath(repo_path), commit_hash>>)
           IN  (is_git_repo(abspath(repo_path))
                    /\ mine \subseteq PastExpiry(git_authorizations, now)) =>
                   \A row \in GitFetch(repo_path, commit_hash) :
                       \A ttl \in Ttls, draw \in Tokens :
                           LET r == add_git_authorization_result(git_authorizations, now,
                                        repo_path, commit_hash, ttl, row, draw)
                           IN  /\ C6_MintsOrCollides(git_authorizations, mine, r, draw)
                               /\ r.raised = None =>
                                      git_locator(r.tbl[draw])
                                          = <<abspath(repo_path), commit_hash>>

\* a file whose earlier authorization has expired has just been given a new token
C6_Witness ==
    /\ ret.op = "add_authorization"
    /\ ret.outcome = "new"
    /\ \E old, new \in DOMAIN authorizations :
           /\ old # new
           /\ file_locator(authorizations[old]) = file_locator(authorizations[new])
           /\ old \in PastExpiry(authorizations, now)
           /\ authorizations[new].created_at = now

\* ----------------------------------------------------------------- C7
\* C7: once the clock is past a token's expires_at, a lookup of the token yields
\* expired together with the record, and keeps doing so across every step
\* (lookups, clock advances, authorize calls) unless the step revokes the token.
C7_LooksUpExpired(tbl, tok) ==
    lookup(tbl, tok, now) = <<[token |-> tok] @@ tbl[tok], "expired">>

C7_StaysExpired(tbl, tbl2, tok) ==
    \/ lookup(tbl2, tok, now') = <<[token |-> tok] @@ tbl[tok], "expired">>
    \/ ret'.op = "revoke" /\ ret'.token = tok /\ tbl = authorizations

C7_ExpiredStaysExpired ==
    [][/\ \A tok \in PastExpiry(authorizations, now) :
              /\ C7_LooksUpExpired(authorizations, tok)
              /\ C7_StaysExpired(authorizations, authorizations', tok)
       /\ \A tok \in PastExpiry(git_authorizations, now) :
              /\ C7_LooksUpExpired(git_authorizations, tok)
              /\ C7_StaysExpired(git_authorizations, git_authorizations', tok)]_vars

\* a resource has been re-authorized while its expired token is still stored and
\* still looks up as expired
C7_Witness ==
    /\ ret.op = "add_authorization"
    /\ ret.outcome = "new"
    /\ \E tok \in PastExpiry(authorizations, now) :
           /\ file_locator(authorizations[tok]) = ret.path
           /\ lookup(authorizations, tok, now)[2] = "expired"

\* ----------------------------------------------------------------- C8
\* C8: revoking a token of the file table returns TRUE and removes exactly that
\* record, so that a lookup right after yields not_found and a second revoke
\* returns FALSE; revoking a token the file table does not hold returns FALSE
\* and leaves the table unchanged.
C8_Case(token) ==
    LET r == remove_authorization_result(authorizations, token)
        again == remove_authorization_result(r.tbl, token)
    IN  IF token \in DOMAIN authorizations
        THEN /\ r.deleted = TRUE
             /\ DOMAIN r.tbl = DOMAIN authorizations \ {token}
             /\ \A tok \in DOMAIN r.tbl : r.tbl[tok] = authorizations[tok]
             /\ lookup(r.tbl, token, now) = <<NoneRow, "not_found">>
             /\ again.deleted = FALSE
             /\ again.tbl = r.tbl
        ELSE /\ r.deleted = FALSE
             /\ r.tbl = authorizations

C8_RevokeDeletesOnce ==
    /\ \A token \in Tokens : C8_Case(token)
    /\ ret.op = "revoke" =>
           /\ lookup(authorizations, ret.token, now)[2] = "not_found"
           /\ ret.deleted \in BOOLEAN

\* a stored token has just been revoked while another record stays in the table
C8_Witness ==
    /\ ret.op = "revoke"
    /\ ret.deleted = TRUE
    /\ ret.token \notin DOMAIN authorizations
    /\ authorizations # EmptyTable

\* ----------------------------------------------------------------- C9
\* C9: the revoke command on a token that is in no store reports "not found",
\* finishes with a non-zero exit code, and changes no stored state.
C9_RevokeUnknownFails ==
    [][(/\ ret'.op = "revoke"
        /\ ret'.token \notin DOMAIN authorizations
        /\ ret'.token \notin DOMAIN git_authorizations)
       => /\ ret'.echo.text = "Token not found"
          /\ ret'.exit_code # 0
          /\ authorizations' = authorizations
          /\ git_authorizations' = git_authorizations]_vars

\* ---------------------------------------------------------------- C10
\* C10: has_active is true exactly when some record of the file table or of the
\* git table has expires_at > now; in particular it is true right after any
\* successful authorize call with ttl > 0 on either table, and false when every
\* record's expires_at lies in the past or both tables are empty.
C10_SomeRecordLive(file_tbl, git_tbl) ==
    \/ \E tok \in DOMAIN file_tbl : file_tbl[tok].expires_at > now
    \/ \E tok \in DOMAIN git_tbl : git_tbl[tok].expires_at > now

C10_HasActiveIff ==
    /\ has_active(authorizations, git_authorizations, now)
           <=> C10_SomeRecordLive(authorizations, git_authorizations)
    /\ (/\ DOMAIN authorizations = PastExpiry(authorizations, now)
        /\ DOMAIN git_authorizations = PastExpiry(git_authorizations, now))
           => ~has_active(authorizations, git_authorizations, now)
    /\ \A filepath \in InputPaths : \A row \in FileFetch(filepath) :
           \A ttl \in Ttls, draw \in token_hex(row) :
               LET r == add_authorization_result(authorizations, now, filepath, ttl, row, draw)
               IN  (ttl > 0 /\ r.raised = None) =>
                       has_active(r.tbl, git_authorizations, now)
    /\ \A repo_path \in InputRepos, commit_hash \in Commits :
           \A row \in GitFetch(repo_path, commit_hash) :
               \A ttl \in Ttls, draw \in token_hex(row) :
                   LET r == add_git_authorization_result(git_authorizations, now, repo_path,
                                                         commit_hash, ttl, row, draw)
                   IN  (ttl > 0 /\ r.raised = None) =>
                           has_active(authorizations, r.tbl, now)

\* the only live record is a git authorization just made, beside an expired file record
C10_Witness ==
    /\ ret.op = "add_git_authorization"
    /\ ret.outcome = "new"
    /\ authorizations # EmptyTable
    /\ DOMAIN authorizations = PastExpiry(authorizations, now)
    /\ has_active(authorizations, git_authorizations, now)

\* ---------------------------------------------------------------- C11
\* C11: an authorize call whose resource fails validation (no such regular
\* file; no .git directory under the repository path) ends in the error
\* (FileNotFoundError / ValueError) and leaves the table as it was: no row is
\* inserted or modified.
C11_ValidationFailureWritesNothing ==
    /\ \A filepath \in InputPaths :
           ~isfile(abspath(filepath)) =>
               \A row \in FileFetch(filepath) : \A ttl \in Ttls, draw \in Tokens :
                   LET r == add_authorization_result(authorizations, now, filepath,
                                                     ttl, row, draw)
                   IN  r.raised = "FileNotFoundError" /\ r.tbl = authorizations
    /\ \A repo_path \in InputRepos, commit_hash \in Commits :
           ~is_git_repo(abspath(repo_path)) =>
               \A row \in GitFetch(repo_path, commit_hash) :
                   \A ttl \in Ttls, draw \in Tokens :
                       LET r == add_git_authorization_result(git_authorizations, now,
                                    repo_path, commit_hash, ttl, row, draw)
                       IN  r.raised = "ValueError" /\ r.tbl = git_authorizations

\* an authorize call on a path that is no file has just failed, the store holding rows
C11_Witness ==
    /\ ret.op = "add_authorization"
    /\ ret.outcome = "FileNotFoundError"
    /\ ~isfile(ret.path)
    /\ authorizations # EmptyTable

\* ---------------------------------------------------------------- C12
\* the resources a token value is bound to, over both tables
C12_ResourcesOf(tok) ==
    {<<"file", authorizations[t].filepath>> : t \in DOMAIN authorizations \cap {tok}}
        \cup {<<"git", git_authorizations[t].repo_path, git_authorizations[t].commit_hash>> :
                  t \in DOMAIN git_authorizations \cap {tok}}

\* C12 as stated (the part a single state shows): a token value is bound to at
\* most one resource, so that it grants access to exactly one resource.
C12_TokenBoundToOneResource ==
    \A tok \in Tokens : Cardinality(C12_ResourcesOf(tok)) <= 1

\* C12 amended: within one table a token stays bound to its record's resource
\* for as long as the record exists.  No step rebinds or overwrites a stored
\* token: every token stored before and after the step has the same resource
\* and created_at, a step adds at most one token (a draw that is a stored token
\* fails and changes nothing), and only revoke removes one.
C12_Keeps(tbl, tbl2, loc_of(_)) ==
    /\ Cardinality(DOMAIN tbl2 \ DOMAIN tbl) <= 1
    /\ \A tok \in DOMAIN tbl \cap DOMAIN tbl2 :
           /\ loc_of(tbl2[tok]) = loc_of(tbl[tok])
           /\ tbl2[tok].created_at = tbl[tok].created_at

C12_StoredTokenKeepsResource ==
    [][/\ C12_Keeps(authorizations, authorizations', file_locator)
       /\ C12_Keeps(git_authorizations, git_authorizations', git_locator)
       /\ ret'.op # "revoke" =>
              /\ DOMAIN authorizations \subseteq DOMAIN authorizations'
              /\ DOMAIN git_authorizations \subseteq DOMAIN git_authorizations']_vars

\* an authorize call for one file has just drawn a token stored for another file
\* and failed; the stored token still belongs to the other file
C12_Witness ==
    /\ ret.op = "add_authorization"
    /\ ret.outcome = "IntegrityError"
    /\ authorizations # EmptyTable
    /\ \A tok \in DOMAIN authorizations : file_locator(authorizations[tok]) # ret.path

\* ---------------------------------------------------------------- C13
\* C13: every record of either table has expires_at > created_at, whatever ttl
\* the authorize calls were given.
C13_ExpiryAfterCreation ==
    /\ \A tok \in DOMAIN authorizations :
           authorizations[tok].expires_at > authorizations[tok].created_at
    /\ \A tok \in DOMAIN git_authorizations :
           git_authorizations[tok].expires_at > git_authorizations[tok].created_at

\* ---------------------------------------------------------------- C14
\* C14: for a file request the response is decided by the lookup status and by
\* whether the file is on disk: not_found gives 404; expired gives a 200
\* "expired" page that is given the stored filename and nothing else (not the
\* path); valid with the file missing gives a 404 with another message than
\* the unknown-token 404; valid with the file present goes to the renderer.
C14_Outcome(row, st, resp) ==
    /\ st = "not_found" => resp = [status |-> 404, body |-> "Not found"]
    /\ st = "expired" =>
           /\ resp.status = 200
           /\ resp.body = "expired"
           /\ DOMAIN resp.page = {"filename"}
           /\ resp.page.filename = row.filename
    /\ (st = "valid" /\ ~isfile(row.filepath)) =>
           /\ resp.status = 404
           /\ resp.body # "Not found"
    /\ (st = "valid" /\ isfile(row.filepath)) =>
           /\ resp.body = "render"
           /\ resp.filepath = row.filepath

C15_GitRepoGoneIsClientError ==
    \A token \in Tokens :
        LET l == lookup(git_authorizations, token, now)
            resp == serve_git_response(l[1], l[2])
        IN  (l[2] = "valid" /\ ~is_git_repo(l[1].repo_path)) =>
                /\ resp.status \in 400..499
                /\ resp # [status |-> 404, body |-> "Not found"]

\* ---------------------------------------------------------------- C16
\* C16: if from some point on no record of either table has expires_at > now,
\* a daemon running with the cleanup timer (not in the foreground) does not
\* keep running: the sweep, scheduled fairly, ends it; and whenever the sweep
\* has ended a daemon, that daemon was not in the foreground and the pid file
\* is gone.
C16_SweepShutsDown ==
    /\ (<>[](~C10_SomeRecordLive(authorizations, git_authorizations)))
           => []<>(~(daemon.state = "running" /\ ~daemon.foreground))
    /\ []((daemon.state = "exited" /\ daemon.by = "sweep")
              => (~daemon.foreground /\ pid_file = None))

\* the sweep has ended a daemon whose store holds nothing but expired records
C16_Witness ==
    /\ daemon.state = "exited"
    /\ daemon.by = "sweep"
    /\ pid_file = None
    /\ authorizations # EmptyTable
    /\ DOMAIN authorizations = PastExpiry(authorizations, now)

\* ---------------------------------------------------------------- C17
\* C17: in every state where the serving process that wrote the pid file has
\* exited (by the sweep, by the signal of stop, or otherwise), the pid file no
\* longer exists.
C17_ExitRemovesPidFile ==
    daemon.state = "exited" => pid_file = None

\* ---------------------------------------------------------------- C18
\* C18: when signalling the recorded pid fails with PermissionError, neither
\* stop_daemon nor is_daemon_running raises: both treat the daemon as running
\* and leave the pid file in place.
C18_PermissionErrorSwallowed ==
    (read_pid(pid_file) # None /\ os_kill(proc) = "PermissionError") =>
        /\ is_daemon_running_result(pid_file, proc)
               = [raised |-> None, returned |-> TRUE, pid_file |-> pid_file]
        /\ stop_daemon_result(pid_file, proc).raised = None
        /\ stop_daemon_result(pid_file, proc).pid_file = pid_file

\* ---------------------------------------------------------------- C19
\* C19: the sweep never ends the process between a handler's lookup and the
\* completion of its response.
C19_NoSweepExitWhileServing ==
    ~(daemon.state = "exited" /\ daemon.by = "sweep" /\ request.pc = "responding")

\* ---------------------------------------------------------------- C20
\* C20: the read path leaves both tables as they are: every step of a request
\* handler (the lookup, the response), every run of the list command and every
\* sweep that ends in the exit (has_active_authorizations), for every token and
\* every lookup status.
C20_ReadStep ==
    \/ request' # request /\ daemon' = daemon
    \/ ret'.op = "list" /\ ret' # ret
    \/ daemon.state = "running" /\ daemon'.state = "exited"

C20_ReadsLeaveStore ==
    [][C20_ReadStep => /\ authorizations' = authorizations
                       /\ git_authorizations' = git_authorizations]_vars

\* a git request for an expired token has been answered with the expired page
\* and the expired record is still stored
C20_Witness ==
    /\ request.pc = "done"
    /\ request.route = "git"
    /\ request.status = "expired"
    /\ request.response.body = "expired"
    /\ PastExpiry(git_authorizations, now) # {}

\* ---------------------------------------------------------------- C21
\* caller p has just executed a statement of its allow command
C21_Stepped(p) == callers'[p] # callers[p]

\* C21: an allow command looks at the daemon's status after add_authorization
\* and spawns a daemon if and only if none is running.  add_authorization
\* itself touches neither pid file nor process, and when it raises the command
\* ends there.  When the pid file names a
\* live process the command ends without a spawn; when the file is stale (its
\* process not found) the file is removed and the command goes on to spawn; when
\* there is no file it goes on to spawn.  The spawn, made with no serving
\* process alive, leaves one running with its pid in the file; and no serving
\* process comes to life but by such a spawn.
C21_SpawnIffNotRunning ==
    [][/\ \A p \in Procs :
              /\ (callers[p].pc \in {"idle", "done"} /\ C21_Stepped(p)) =>
                     /\ callers'[p].pc \in {"is_daemon_running", "idle"}
                     /\ UNCHANGED <<pid_file, proc, daemon>>
              /\ (callers[p].pc = "is_daemon_running" /\ C21_Stepped(p)) =>
                     IF pid_file # None /\ proc # "absent"
                     THEN /\ callers'[p].pc = "done"
                          /\ callers'[p].report = "running"
                          /\ UNCHANGED <<pid_file, proc, daemon>>
                     ELSE /\ callers'[p].pc = "start_daemon"
                          /\ pid_file' = None
                          /\ UNCHANGED <<proc, daemon>>
              /\ (callers[p].pc = "start_daemon" /\ C21_Stepped(p)) =>
                     /\ callers'[p].pc = "done"
                     /\ callers'[p].report \in {"started", "exited immediately"}
                     /\ daemon.state # "running" =>
                            /\ callers'[p].report = "started"
                            /\ daemon'.state = "running"
                            /\ proc' = "daemon"
                            /\ pid_file' = Pid
       /\ (daemon.state # "running" /\ daemon'.state = "running") =>
              \E p \in Procs : callers[p].pc = "start_daemon" /\ C21_Stepped(p)]_vars

\* a stop has killed the daemon and left its pid file; an allow command has
\* since found the file stale, removed it, and is about to spawn
C21_Witness ==
    /\ \E p \in Procs : callers[p].pc = "start_daemon"
    /\ daemon.state = "exited"
    /\ daemon.by = "SIGTERM"
    /\ pid_file = None
    /\ proc = "absent"

\* ---------------------------------------------------------------- C22
\* C22: revoke(token) for a token stored in the git table deletes that record
\* and returns true, so that a git lookup of the token gives not_found
\* afterwards.
C22_RevokeReachesGitStore ==
    [][(ret'.op = "revoke" /\ ret'.token \in DOMAIN git_authorizations) =>
           /\ ret'.deleted
           /\ lookup(git_authorizations', ret'.token, now')[2] = "not_found"]_vars

\* ---------------------------------------------------------------- C23
\* C23: at every clock value, if the lookup of some token in either table
\* returns valid, has_active_authorizations() is true.
C23_ValidImpliesActive ==
    \A tok \in Tokens :
        (\/ lookup(authorizations, tok, now)[2] = "valid"
         \/ lookup(git_authorizations, tok, now)[2] = "valid")
            => has_active(authorizations, git_authorizations, now)

\* ---------------------------------------------------------------- C24
\* the step changed nothing of tbl but the expires_at of one record at loc
C24_ExtendsOnly(tbl, tbl2, loc_of(_), loc) ==
    /\ DOMAIN tbl2 = DOMAIN tbl
    /\ \E tok \in DOMAIN tbl :
           /\ loc_of(tbl[tok]) = loc
           /\ tbl2 = [tbl EXCEPT ![tok].expires_at = tbl2[tok].expires_at]

\* the step added exactly one row to tbl and changed no row of it
C24_MintsOne(tbl, tbl2) ==
    /\ DOMAIN tbl \subseteq DOMAIN tbl2
    /\ Cardinality(DOMAIN tbl2 \ DOMAIN tbl) = 1
    /\ \A tok \in DOMAIN tbl : tbl2[tok] = tbl[tok]

\* C24: an extending authorize call changes only the expires_at of the one
\* matched record (its token, locator, filename and created_at, every other
\* record of its table and the whole other table stay as they were); a minting
\* authorize call adds exactly one row and changes no existing row, nor the
\* other table.
C24_AuthorizeFrame ==
    [][/\ (ret'.op = "add_authorization" /\ ret'.outcome = "extended") =>
              /\ C24_ExtendsOnly(authorizations, authorizations', file_locator, ret'.path)
              /\ git_authorizations' = git_authorizations
       /\ (ret'.op = "add_authorization" /\ ret'.outcome = "new") =>
              /\ C24_MintsOne(authorizations, authorizations')
              /\ git_authorizations' = git_authorizations
       /\ (ret'.op = "add_git_authorization" /\ ret'.outcome = "extended") =>
              /\ C24_ExtendsOnly(git_authorizations, git_authorizations', git_locator,
                                 ret'.path)
              /\ authorizations' = authorizations
       /\ (ret'.op = "add_git_authorization" /\ ret'.outcome = "new") =>
              /\ C24_MintsOne(git_authorizations, git_authorizations')
              /\ authorizations' = authorizations]_vars

\* an authorize call has just extended one of two file records; the record of
\* the other file kept its own expires_at
C24_Witness ==
    /\ ret.op = "add_authorization"
    /\ ret.outcome = "extended"
    /\ \E tok, other \in DOMAIN authorizations :
           /\ file_locator(authorizations[tok]) = ret.path
           /\ file_locator(authorizations[other]) # ret.path
           /\ authorizations[tok].expires_at # authorizations[other].expires_at

\* ---------------------------------------------------------------- C25
\* C25: whenever a serving process is alive, the pid file exists and holds that
\* process's pid, after any sequence of serve, allow, stop and sweep steps, a
\* second serve that fails to bind the port included.
C25_PidFileNamesServingProcess ==
    daemon.state = "running" => read_pid(pid_file) = Pid

\* ---------------------------------------------------------------- C26
\* caller p's command has completed with a daemon reported running or started,
\* and the authorization it printed the link of is live
C26_LinkLive(p) ==
    /\ callers[p].pc = "done"
    /\ callers[p].report \in {"running", "started"}
    /\ callers[p].token \in BeforeExpiry(IF callers[p].kind = "file"
                                         THEN authorizations
                                         ELSE git_authorizations, now)

\* a serving process is alive, or the last one was ended by vibefs stop
C26_ServingUnlessStopped ==
    \/ daemon.state = "running"
    \/ daemon.state = "exited" /\ daemon.by = "SIGTERM"

\* C26 as stated: in every interleaving of an authorize command with the
\* sweep, once the command has completed with a successful spawn or a running
\* daemon, a serving process stays alive for as long as the authorization is
\* live and no stop is issued.
C26_LinkBackedByDaemon ==
    \A p \in Procs : C26_LinkLive(p) => C26_ServingUnlessStopped

\* C26 amended: the same, for every authorize command whose record was written
\* before the sweep made the has_active_authorizations() check that found
\* nothing active.  (A sweep that has found nothing active goes on to remove the
\* pid file and exit whatever is authorized meanwhile.)
C26_LinkBackedUnlessSweepCommitted ==
    \A p \in Procs :
        (C26_LinkLive(p) /\ ~callers[p].sweep_committed) => C26_ServingUnlessStopped

\* an allow-git command found the daemon running that an allow command had
\* started; both authorizations are live and the sweep has not committed
C26_Witness ==
    /\ C26_LinkLive(1) /\ callers[1].report = "started" /\ ~callers[1].sweep_committed
    /\ C26_LinkLive(2) /\ callers[2].report = "running" /\ ~callers[2].sweep_committed
    /\ daemon = [state |-> "running", foreground |-> FALSE]

====
